---- MODULE Spec2Model ----
(***************************************************************************)
(* Model of release_tools/release.py: the cargo release helper.            *)
(*                                                                         *)
(* One invocation of main() is a walk of pc through the external commands  *)
(* it runs (git, cargo, the editor), each of which may succeed or fail.    *)
(* The repository, the worktree, the remote and the registry persist       *)
(* between invocations; the process locals are reset by Start.             *)
(*                                                                         *)
(* Text representation.  A string that is handled by split(".") is kept as *)
(* the sequence of its dot-separated parts; a part is a sequence of        *)
(* characters, a character being a decimal digit 0..9, NonDigit (any       *)
(* character for which str.isdigit() is false) or SuperDigit (a character  *)
(* such as the superscript two, for which str.isdigit() is true while      *)
(* int() raises ValueError and \d does not match).  "0.1.0" is             *)
(* <<<<0>>, <<1>>, <<0>>>>, "1.x.3" is <<<<1>>, <<NonDigit>>, <<3>>>>.     *)
(***************************************************************************)
EXTENDS Integers, Sequences, FiniteSets, TLC

\* ------------------------------------------------------------------ bounds

\* number of invocations of the tool in one behaviour
MaxRuns == 2

\* largest number of dot-separated parts of a version text handed to bump_version
MaxParts == 4

\* largest number of version lines of a Cargo.toml handed to update_cargo_files
MaxVersionLines == 2

\* ----------------------------------------------------------- version text

NonDigit == 10
SuperDigit == 11

\* a part int() accepts and \d+ matches: non-empty, decimal digits only
IsDecimal(p) == Len(p) > 0 /\ \A i \in 1..Len(p) : p[i] \in 0..9

\* str.isdigit() of one part: non-empty, every character a digit
IsDigit(p) == Len(p) > 0 /\ \A i \in 1..Len(p) : p[i] \in (0..9) \cup {SuperDigit}

RECURSIVE ToInt(_)
\* int(p) for a part of digits (leading zeros are dropped by the value)
ToInt(p) == IF Len(p) = 0 THEN 0
            ELSE 10 * ToInt(SubSeq(p, 1, Len(p) - 1)) + p[Len(p)]

RECURSIVE ToStr(_)
\* str(n) of a non-negative integer, as a part
ToStr(n) == IF n < 10 THEN <<n>> ELSE ToStr(n \div 10) \o <<n % 10>>

\* f"{major}.{minor}.{patch}"
Fmt(major, minor, patch) == <<ToStr(major), ToStr(minor), ToStr(patch)>>

BumpKinds == {"patch", "minor", "major", "current"}

\* bump_version zeroing nothing on a minor bump
bump_version_minor_keeps_patch(current, bump) ==
    IF Len(current) # 3 \/ \E i \in 1..Len(current) : ~IsDigit(current[i])
    THEN [ok |-> FALSE, err |-> "InvalidFormat"]
    ELSE IF bump = "current" THEN [ok |-> TRUE, v |-> current]
    ELSE IF \E i \in 1..3 : ~IsDecimal(current[i])
    THEN [ok |-> FALSE, err |-> "ValueError"]
    ELSE LET major == ToInt(current[1])
             minor == ToInt(current[2])
             patch == ToInt(current[3])
         IN  CASE bump = "patch" -> [ok |-> TRUE, v |-> Fmt(major, minor, patch + 1)]
               [] bump = "minor" -> [ok |-> TRUE, v |-> Fmt(major, minor + 1, patch)]
               [] bump = "major" -> [ok |-> TRUE, v |-> Fmt(major + 1, 0, 0)]
               [] OTHER          -> [ok |-> FALSE, err |-> "UnknownBump"]

\* bump_version(current, bump): [ok, v] on return, [ok, err] on sys.exit(1)
\* and on the ValueError of int() at line 98
bump_version(current, bump) ==
    IF Len(current) # 3 \/ \E i \in 1..Len(current) : ~IsDigit(current[i])
    THEN [ok |-> FALSE, err |-> "InvalidFormat"]
    ELSE IF bump = "current" THEN [ok |-> TRUE, v |-> current]
    ELSE IF \E i \in 1..3 : ~IsDecimal(current[i])
    THEN [ok |-> FALSE, err |-> "ValueError"]
    ELSE LET major == ToInt(current[1])
             minor == ToInt(current[2])
             patch == ToInt(current[3])
         IN  CASE bump = "patch" -> [ok |-> TRUE, v |-> Fmt(major, minor, patch + 1)]
               [] bump = "minor" -> [ok |-> TRUE, v |-> Fmt(major, minor + 1, 0)]
               [] bump = "major" -> [ok |-> TRUE, v |-> Fmt(major + 1, 0, 0)]
               [] OTHER          -> [ok |-> FALSE, err |-> "UnknownBump"]

\* ------------------------------------------------------------- the manifest

(***************************************************************************)
(* Cargo.toml is a sequence of lines.  A line is                           *)
(*   [key |-> "name", text]            name = "<text>"                     *)
(*   [key |-> "version", indent, trail, val, pkg]                          *)
(*        <indent?>version = "<val>"<trailing comment?>; pkg marks the     *)
(*        version field of the [package] table, the one cargo reads        *)
(*   [key |-> "other"]                 any other line                      *)
(***************************************************************************)
NameLine(t) == [key |-> "name", text |-> t]
VersionLine(i, t, v, p) == [key |-> "version", indent |-> i, trail |-> t, val |-> v, pkg |-> p]
OtherLine == [key |-> "other"]

\* the empty string: one empty part
EmptyStr == << <<>> >>

\* (?m)^\s*name\s*=\s*"([^"]+)"\s*$
NameMatch(l) == l.key = "name"

\* (?m)^\s*version\s*=\s*"([^"]+)"\s*$ : any indentation, nothing after the quote
ReadVersionMatch(l) == l.key = "version" /\ ~l.trail /\ l.val # EmptyStr

\* (?m)^(version\s*=\s*")([^"]+)(") : at the line start, anything after the quote
WriteVersionMatch(l) == l.key = "version" /\ ~l.indent /\ l.val # EmptyStr

\* the first of the matching line numbers S, 0 when none (re.search / count=1)
FirstMatch(S) == IF S = {} THEN 0 ELSE CHOOSE i \in S : \A j \in S : i <= j

\* read_package_info(cargo_toml)
read_package_info(m) ==
    LET n == FirstMatch({i \in 1..Len(m) : NameMatch(m[i])})
        v == FirstMatch({i \in 1..Len(m) : ReadVersionMatch(m[i])})
    IN  IF n = 0 \/ v = 0
        THEN [ok |-> FALSE, err |-> "MetadataParseError"]
        ELSE [ok |-> TRUE, name |-> m[n].text, version |-> m[v].val]

\* re.subn(..., count=1) of update_cargo_files: the new text and the count
SubVersion(m, new_version) ==
    LET i == FirstMatch({i \in 1..Len(m) : WriteVersionMatch(m[i])})
    IN  IF i = 0 THEN [text |-> m, replaced |-> 0]
        ELSE [text |-> [m EXCEPT ![i].val = new_version], replaced |-> 1]

\* the version cargo publishes: the [package] table's version field
PackageVersion(m) ==
    LET i == FirstMatch({i \in 1..Len(m) : m[i].key = "version" /\ m[i].pkg})
    IN  IF i = 0 THEN EmptyStr ELSE m[i].val

\* what the registry accepts as a version: three numbers without leading zeros
SemVerOK(v) ==
    /\ Len(v) = 3
    /\ \A i \in 1..3 : IsDecimal(v[i]) /\ (Len(v[i]) > 1 => v[i][1] # 0)

\* ---------------------------------------------------------- commit messages

\* a commit subject: f"release v{ver}" when rel, some other text otherwise
Rel(v) == [rel |-> TRUE, ver |-> v]
OtherMsg == [rel |-> FALSE, ver |-> EmptyStr]

\* a looser pattern: r"^release v(.+)$"
ReleaseMatch_prefix(msg) == msg.rel /\ msg.ver # EmptyStr

\* re.match(r"^release v(\d+\.\d+\.\d+)$", last_commit)
ReleaseMatch(msg) ==
    msg.rel /\ Len(msg.ver) = 3 /\ \A i \in 1..3 : IsDecimal(msg.ver[i])

\* ------------------------------------------------------------------- state

VARIABLES
    branch,          \* git rev-parse --abbrev-ref HEAD
    headMsg,         \* git log -1 --format=%s
    ncommits,        \* number of commits on the local branch
    headManifest,    \* Cargo.toml as committed in HEAD
    tags,            \* local tags: the versions X for which tag vX exists
    manifest,        \* Cargo.toml in the working tree
    lockDirty,       \* Cargo.lock differs from HEAD
    changelogDirty,  \* CHANGELOG.md differs from HEAD
    otherDirty,      \* some other path shows in git status --porcelain
    eol,             \* the line terminator of Cargo.toml on disk: "LF" or "CRLF"
    linesep,         \* os.linesep of the host the tool runs on
    remoteCommits,   \* number of commits of the branch on the remote
    remoteTags,      \* tags on the remote
    registry,        \* versions of the crate the registry holds
    pc,              \* position of the running invocation in main()
    args,            \* argparse result: bump, dry_run, continue_release
    new_version,     \* main: new_version; continue_release: version
    tag_exists,      \* continue_release: tag_exists
    trace,           \* commands the running invocation has run, with outcome
    exitCode,        \* exit status of the last finished invocation
    err,             \* the failure it ended with, "none" on success
    runs,            \* invocations started so far
    atStart,         \* repository, worktree and remote when the invocation began
    releaseState     \* how far the release begun by the last fresh commit has got

repo   == <<branch, headMsg, ncommits, headManifest, tags>>
work   == <<manifest, lockDirty, changelogDirty, otherDirty, eol, linesep>>
remote == <<remoteCommits, remoteTags, registry>>
locals == <<args, new_version, tag_exists>>
hist   == <<runs, atStart, releaseState>>
vars   == <<branch, headMsg, ncommits, headManifest, tags, manifest, lockDirty,
            changelogDirty, otherDirty, eol, linesep, remoteCommits, remoteTags, registry, pc,
            args, new_version, tag_exists, trace, exitCode, err, runs, atStart,
            releaseState>>

\* git status --porcelain --ignore-submodules prints something
Dirty == manifest # headManifest \/ lockDirty \/ changelogDirty \/ otherDirty

\* ---------------------------------------------------------- initial states

V019  == <<<<0>>, <<1>>, <<9>>>>
V0110 == <<<<0>>, <<1>>, <<1, 0>>>>
V020  == <<<<0>>, <<2>>, <<0>>>>
VBad  == <<<<1>>, <<NonDigit>>, <<3>>>>

Plain(v)    == <<OtherLine, NameLine("crate"), VersionLine(FALSE, FALSE, v, TRUE)>>
Indented(v) == <<OtherLine, NameLine("crate"), VersionLine(TRUE, FALSE, v, TRUE)>>
Trailing(v) == <<OtherLine, NameLine("crate"), VersionLine(FALSE, TRUE, v, TRUE)>>

\* an indented [package] version followed by the version of a dependency table
Mixed(v, d) == <<OtherLine, NameLine("crate"), VersionLine(TRUE, FALSE, v, TRUE),
                 OtherLine, VersionLine(FALSE, FALSE, d, FALSE)>>

InitManifests == {Plain(V019), Plain(VBad), Indented(V019), Trailing(V019),
                  Mixed(V019, V020)}
InitMessages  == {OtherMsg, Rel(V019), Rel(V020), Rel(VBad)}
InitTags      == {{}, {V019}, {V0110}}
InitRegistry  == {{}, {V019}}

NoArgs == [bump |-> "none", dry_run |-> FALSE, continue_release |-> FALSE]

Init ==
    /\ branch \in {"main", "dev"}
    /\ headMsg \in InitMessages
    /\ ncommits = 1
    /\ manifest \in InitManifests
    /\ headManifest = manifest
    /\ tags \in InitTags
    /\ lockDirty = FALSE
    /\ changelogDirty = FALSE
    /\ otherDirty \in BOOLEAN
    /\ eol = "LF"
    /\ linesep = "LF"
    /\ remoteCommits = 0
    /\ remoteTags = {}
    /\ registry \in InitRegistry
    /\ pc = "idle"
    /\ args = NoArgs
    /\ new_version = EmptyStr
    /\ tag_exists = FALSE
    /\ trace = <<>>
    /\ exitCode = 0
    /\ err = "none"
    /\ runs = 0
    /\ atStart = <<repo, work, remote, "Clean">>
    /\ releaseState = "Clean"

\* ------------------------------------------------------------- process end

Cmd(c, o) == [cmd |-> c, out |-> o]

\* the command c ran and ended with outcome o
Ran(c, o) == trace' = Append(trace, Cmd(c, o))

\* sys.exit(code) / return from main / an uncaught exception (status 1)
Finish(code, e) == pc' = "done" /\ exitCode' = code /\ err' = e

Goto(p) == pc' = p /\ UNCHANGED <<exitCode, err>>

\* a release the tool has committed reaches step s
Reach(s) == releaseState' = (IF releaseState = "Clean" THEN "Clean" ELSE s)

\* ------------------------------------------------------------ entering main

\* lines 218-225: parse_args, find_project_root, chdir.  in_project: a
\* Cargo.toml exists in the current directory or one of its parents.
Start(bump, dry_run, cont, in_project) ==
    /\ pc \in {"idle", "done"}
    /\ runs < MaxRuns
    /\ runs' = runs + 1
    /\ args' = [bump |-> bump, dry_run |-> dry_run, continue_release |-> cont]
    /\ new_version' = EmptyStr
    /\ tag_exists' = FALSE
    /\ trace' = <<>>
    /\ releaseState' = (IF cont THEN releaseState ELSE "Clean")
    /\ atStart' = <<repo, work, remote, releaseState'>>
    /\ IF in_project
       THEN pc' = "ensure_main_branch" /\ exitCode' = 0 /\ err' = "none"
       ELSE Finish(1, "ProjectRootNotFound")
    /\ UNCHANGED <<repo, work, remote>>

\* ensure_main_branch called only on the fresh path
ensure_main_branch_fresh_only ==
    /\ pc = "ensure_main_branch"
    /\ \E ok \in BOOLEAN :
        IF args.continue_release
        THEN Goto("dispatch") /\ UNCHANGED trace
        ELSE IF ~ok
        THEN Ran("git rev-parse --abbrev-ref HEAD", "fail")
             /\ Finish(1, "ExternalCommandError")
        ELSE /\ Ran("git rev-parse --abbrev-ref HEAD", "ok")
             /\ IF branch # "main"
                THEN Finish(1, "WrongBranch")
                ELSE Goto("dispatch")
    /\ UNCHANGED <<repo, work, remote, locals, hist>>

\* ensure_main_branch, called at line 227 for every invocation
ensure_main_branch ==
    /\ pc = "ensure_main_branch"
    /\ \E ok \in BOOLEAN :
        IF ~ok
        THEN Ran("git rev-parse --abbrev-ref HEAD", "fail")
             /\ Finish(1, "ExternalCommandError")
        ELSE /\ Ran("git rev-parse --abbrev-ref HEAD", "ok")
             /\ IF branch # "main"
                THEN Finish(1, "WrongBranch")
                ELSE Goto("dispatch")
    /\ UNCHANGED <<repo, work, remote, locals, hist>>

\* the dispatch with argument errors ending like every other failure
Dispatch_exit_one ==
    /\ pc = "dispatch"
    /\ IF args.continue_release
       THEN IF args.bump # "none"
            THEN Finish(1, "UsageError")
            ELSE Goto("continue_release")
       ELSE IF args.bump = "none"
            THEN Finish(1, "UsageError")
            ELSE Goto("ensure_clean_worktree")
    /\ UNCHANGED <<repo, work, remote, locals, hist, trace>>

\* lines 229-236: the two entry paths; parser.error exits with status 2
Dispatch ==
    /\ pc = "dispatch"
    /\ IF args.continue_release
       THEN IF args.bump # "none"
            THEN Finish(2, "UsageError")
            ELSE Goto("continue_release")
       ELSE IF args.bump = "none"
            THEN Finish(2, "UsageError")
            ELSE Goto("ensure_clean_worktree")
    /\ UNCHANGED <<repo, work, remote, locals, hist, trace>>

\* ensure_clean_worktree that ignores the status listing
ensure_clean_worktree_ignored ==
    /\ pc = "ensure_clean_worktree"
    /\ \E ok \in BOOLEAN :
        IF ~ok
        THEN Ran("git status", "fail") /\ Finish(1, "ExternalCommandError")
        ELSE Ran("git status", "ok") /\ Goto("read_version")
    /\ UNCHANGED <<repo, work, remote, locals, hist>>

\* ensure_clean_worktree, called at line 238
ensure_clean_worktree ==
    /\ pc = "ensure_clean_worktree"
    /\ \E ok \in BOOLEAN :
        IF ~ok
        THEN Ran("git status", "fail") /\ Finish(1, "ExternalCommandError")
        ELSE /\ Ran("git status", "ok")
             /\ IF Dirty
                THEN Finish(1, "DirtyWorktree")
                ELSE Goto("read_version")
    /\ UNCHANGED <<repo, work, remote, locals, hist>>

\* lines 240-241: read_package_info, then bump_version
ReadAndBump ==
    /\ pc = "read_version"
    /\ LET info == read_package_info(manifest)
       IN  IF ~info.ok
           THEN Finish(1, info.err) /\ UNCHANGED new_version
           ELSE LET b == bump_version(info.version, args.bump)
                IN  IF ~b.ok
                    THEN Finish(1, b.err) /\ UNCHANGED new_version
                    ELSE Goto("check_tag") /\ new_version' = b.v
    /\ UNCHANGED <<repo, work, remote, args, tag_exists, hist, trace>>

\* the tag guard probing the tag of the current version instead of the new one
CheckTag_current ==
    /\ pc = "check_tag"
    /\ LET cur == read_package_info(manifest).version
       IN  /\ Ran("git rev-parse tag", IF cur \in tags THEN "found" ELSE "missing")
           /\ IF cur \in tags
              THEN Finish(1, "TagAlreadyExists")
              ELSE Goto("update_cargo_files")
    /\ UNCHANGED <<repo, work, remote, locals, hist>>

\* lines 243-252: git rev-parse v<new_version> answers 0 when the tag exists
CheckTag ==
    /\ pc = "check_tag"
    /\ Ran("git rev-parse tag", IF new_version \in tags THEN "found" ELSE "missing")
    /\ IF new_version \in tags
       THEN Finish(1, "TagAlreadyExists")
       ELSE Goto("update_cargo_files")
    /\ UNCHANGED <<repo, work, remote, locals, hist>>

\* update_cargo_files, called at line 254.  read_text() hands the text with
\* every line terminator translated to "\n", so the comparison at line 129
\* is blind to the terminators; write_text() writes every "\n" as os.linesep.
update_cargo_files ==
    /\ pc = "update_cargo_files"
    /\ LET sub == SubVersion(manifest, new_version)
       IN  IF sub.replaced # 1
           THEN Finish(1, "WriteFailed") /\ UNCHANGED <<work, trace>>
           ELSE IF sub.text = manifest
           THEN Goto("changelog") /\ UNCHANGED <<work, trace>>
           ELSE /\ manifest' = sub.text
                /\ eol' = linesep
                /\ \E ok \in BOOLEAN :
                    IF ok
                    THEN /\ trace' = trace \o <<Cmd("write Cargo.toml", "ok"),
                                                 Cmd("cargo check", "ok")>>
                         /\ lockDirty' = TRUE
                         /\ Goto("changelog")
                    ELSE /\ trace' = trace \o <<Cmd("write Cargo.toml", "ok"),
                                                 Cmd("cargo check", "fail")>>
                         /\ UNCHANGED lockDirty
                         /\ Finish(1, "ExternalCommandError")
                /\ UNCHANGED <<changelogDirty, otherDirty, linesep>>
    /\ UNCHANGED <<repo, remote, locals, hist>>

\* changelog.generate_for_pending, called at line 257: rewrites CHANGELOG.md
\* (or finds nothing to add), or raises
generate_for_pending ==
    /\ pc = "changelog"
    /\ \E out \in {"changed", "same", "fail"} :
        /\ Ran("changelog", IF out = "fail" THEN "fail" ELSE "ok")
        /\ changelogDirty' = (changelogDirty \/ out = "changed")
        /\ IF out = "fail" THEN Finish(1, "ExternalCommandError")
                           ELSE Goto("status_after_update")
    /\ UNCHANGED <<repo, remote, locals, hist, manifest, lockDirty, otherDirty,
                   eol, linesep>>

\* lines 259-269: the no-change guard, then the dry-run return
StatusAfterUpdate ==
    /\ pc = "status_after_update"
    /\ \E ok \in BOOLEAN :
        IF ~ok
        THEN Ran("git status", "fail") /\ Finish(1, "ExternalCommandError")
        ELSE /\ Ran("git status", "ok")
             /\ IF ~Dirty THEN Finish(1, "NoChangesProduced")
                ELSE IF args.dry_run THEN Finish(0, "none")
                ELSE Goto("editor")
    /\ UNCHANGED <<repo, work, remote, locals, hist>>

\* lines 271-273: $EDITOR CHANGELOG.md, check=True
Editor ==
    /\ pc = "editor"
    /\ \E ok \in BOOLEAN :
        IF ok THEN Ran("editor", "ok") /\ Goto("confirm")
              ELSE Ran("editor", "fail") /\ Finish(1, "ExternalCommandError")
    /\ UNCHANGED <<repo, work, remote, locals, hist>>

\* what the operator may type at the prompt
Responses == {"y", "Y", " y ", "n", "yes", ""}

\* input(...).strip().lower()
Normalise(r) == IF r \in {"y", "Y", " y "} THEN "y" ELSE r

\* the checkpoint taking every answer that begins with y for a yes
Confirm_startswith ==
    /\ pc = "confirm"
    /\ \E r \in Responses :
        /\ Ran("input", Normalise(r))
        /\ IF Normalise(r) \notin {"y", "yes"}
           THEN Finish(1, "Aborted")
           ELSE Goto("git_add")
    /\ UNCHANGED <<repo, work, remote, locals, hist>>

\* lines 275-278: the human checkpoint; the trace keeps the answer as compared
Confirm ==
    /\ pc = "confirm"
    /\ \E r \in Responses :
        /\ Ran("input", Normalise(r))
        /\ IF Normalise(r) # "y"
           THEN Finish(1, "Aborted")
           ELSE Goto("git_add")
    /\ UNCHANGED <<repo, work, remote, locals, hist>>

\* --------------------------------------------- commit, publish, tag, push

\* commit_release, first command: git add Cargo.toml Cargo.lock CHANGELOG.md
GitAdd ==
    /\ pc = "git_add"
    /\ \E ok \in BOOLEAN :
        IF ok THEN Ran("git add", "ok") /\ Goto("git_commit")
              ELSE Ran("git add", "fail") /\ Finish(1, "ExternalCommandError")
    /\ UNCHANGED <<repo, work, remote, locals, hist>>

\* commit_release handed current_version in place of new_version
GitCommit_current_version ==
    /\ pc = "git_commit"
    /\ \E ok \in BOOLEAN :
        IF ok
        THEN /\ Ran("git commit", "ok")
             /\ headMsg' = Rel(read_package_info(headManifest).version)
             /\ ncommits' = ncommits + 1
             /\ headManifest' = manifest
             /\ lockDirty' = FALSE
             /\ changelogDirty' = FALSE
             /\ releaseState' = "Committed"
             /\ Goto("publish_crate")
        ELSE /\ Ran("git commit", "fail")
             /\ UNCHANGED <<headMsg, ncommits, headManifest, lockDirty,
                            changelogDirty, releaseState>>
             /\ Finish(1, "ExternalCommandError")
    /\ UNCHANGED <<branch, tags, manifest, otherDirty, eol, linesep, remote, locals,
                   runs, atStart>>

\* commit_release, second command: git commit -m "release v<new_version>"
GitCommit ==
    /\ pc = "git_commit"
    /\ \E ok \in BOOLEAN :
        IF ok
        THEN /\ Ran("git commit", "ok")
             /\ headMsg' = Rel(new_version)
             /\ ncommits' = ncommits + 1
             /\ headManifest' = manifest
             /\ lockDirty' = FALSE
             /\ changelogDirty' = FALSE
             /\ releaseState' = "Committed"
             /\ Goto("publish_crate")
        ELSE /\ Ran("git commit", "fail")
             /\ UNCHANGED <<headMsg, ncommits, headManifest, lockDirty,
                            changelogDirty, releaseState>>
             /\ Finish(1, "ExternalCommandError")
    /\ UNCHANGED <<branch, tags, manifest, otherDirty, eol, linesep, remote, locals,
                   runs, atStart>>

\* the outcomes cargo publish can have: the registry rejects a version it
\* already holds ("dup") and a version that is not a semantic version;
\* otherwise the upload succeeds or fails on the way
PublishOutcomes ==
    LET v == PackageVersion(manifest)
    IN  IF ~SemVerOK(v) THEN {"fail"}
        ELSE IF v \in registry THEN {"dup"}
        ELSE {"ok", "fail"}

\* continue_release tagging whether or not the tag was found
AfterPublish_always_tag == "tag_release"

\* what follows a successful publish: main (lines 282-285) always tags,
\* continue_release (lines 189-194) tags unless the tag was found
AfterPublish ==
    IF args.continue_release /\ tag_exists THEN "git_push" ELSE "tag_release"

\* publish_crate run with check=False: a failed publish is not noticed
publish_crate_unchecked ==
    /\ pc = "publish_crate"
    /\ \E out \in PublishOutcomes :
        /\ Ran("cargo publish", out)
        /\ registry' = (IF out = "ok" THEN registry \cup {PackageVersion(manifest)}
                                      ELSE registry)
        /\ IF out = "ok" THEN Reach("Published") ELSE UNCHANGED releaseState
        /\ Goto(AfterPublish)
    /\ UNCHANGED <<repo, work, remoteCommits, remoteTags, locals, runs, atStart>>

\* publish_crate: cargo publish, check=True
publish_crate ==
    /\ pc = "publish_crate"
    /\ \E out \in PublishOutcomes :
        /\ Ran("cargo publish", out)
        /\ IF out = "ok"
           THEN /\ registry' = registry \cup {PackageVersion(manifest)}
                /\ Reach("Published")
                /\ Goto(AfterPublish)
           ELSE /\ UNCHANGED <<registry, releaseState>>
                /\ Finish(1, "PublishFailed")
    /\ UNCHANGED <<repo, work, remoteCommits, remoteTags, locals, runs, atStart>>

\* tag_release: git tag -a v<new_version>; git refuses an existing tag name
tag_release ==
    /\ pc = "tag_release"
    /\ \E ok \in (IF new_version \in tags THEN {FALSE} ELSE BOOLEAN) :
        IF ok
        THEN /\ Ran("git tag", "ok")
             /\ tags' = tags \cup {new_version}
             /\ Reach("Tagged")
             /\ Goto("git_push")
        ELSE /\ Ran("git tag", "fail")
             /\ UNCHANGED <<tags, releaseState>>
             /\ Finish(1, "ExternalCommandError")
    /\ UNCHANGED <<branch, headMsg, ncommits, headManifest, work, remote, locals,
                   runs, atStart>>

\* push_release, first command: git push
GitPush ==
    /\ pc = "git_push"
    /\ \E ok \in BOOLEAN :
        IF ok
        THEN /\ Ran("git push", "ok")
             /\ remoteCommits' = ncommits
             /\ Reach("BranchPushed")
             /\ Goto("git_push_tags")
        ELSE /\ Ran("git push", "fail")
             /\ UNCHANGED <<remoteCommits, releaseState>>
             /\ Finish(1, "ExternalCommandError")
    /\ UNCHANGED <<repo, work, remoteTags, registry, locals, runs, atStart>>

\* push_release, second command: git push --tags; then main and
\* continue_release print and return
GitPushTags ==
    /\ pc = "git_push_tags"
    /\ \E ok \in BOOLEAN :
        IF ok
        THEN /\ Ran("git push --tags", "ok")
             /\ remoteTags' = remoteTags \cup tags
             /\ Reach("Pushed")
             /\ Finish(0, "none")
        ELSE /\ Ran("git push --tags", "fail")
             /\ UNCHANGED <<remoteTags, releaseState>>
             /\ Finish(1, "ExternalCommandError")
    /\ UNCHANGED <<repo, work, remoteCommits, registry, locals, runs, atStart>>

\* -------------------------------------------------------------- continuation

\* continue_release matching the commit subject against r"^release v(.+)$"
ContLastCommit_any_version ==
    /\ pc = "continue_release"
    /\ \E ok \in BOOLEAN :
        IF ~ok
        THEN Ran("git log", "fail") /\ Finish(1, "ExternalCommandError")
             /\ UNCHANGED new_version
        ELSE /\ Ran("git log", "ok")
             /\ IF ~ReleaseMatch_prefix(headMsg)
                THEN Finish(1, "NotAReleaseCommit") /\ UNCHANGED new_version
                ELSE Goto("continue_read") /\ new_version' = headMsg.ver
    /\ UNCHANGED <<repo, work, remote, args, tag_exists, hist>>

\* continue_release lines 157-168: the last commit must be a release commit
ContLastCommit ==
    /\ pc = "continue_release"
    /\ \E ok \in BOOLEAN :
        IF ~ok
        THEN Ran("git log", "fail") /\ Finish(1, "ExternalCommandError")
             /\ UNCHANGED new_version
        ELSE /\ Ran("git log", "ok")
             /\ IF ~ReleaseMatch(headMsg)
                THEN Finish(1, "NotAReleaseCommit") /\ UNCHANGED new_version
                ELSE Goto("continue_read") /\ new_version' = headMsg.ver
    /\ UNCHANGED <<repo, work, remote, args, tag_exists, hist>>

\* continue_release without the comparison of the two versions
ContReadVersion_uncompared ==
    /\ pc = "continue_read"
    /\ LET info == read_package_info(manifest)
       IN  IF ~info.ok THEN Finish(1, info.err)
           ELSE Goto("continue_probe")
    /\ UNCHANGED <<repo, work, remote, locals, hist, trace>>

\* continue_release lines 169-176: the manifest must carry the same version
ContReadVersion ==
    /\ pc = "continue_read"
    /\ LET info == read_package_info(manifest)
       IN  IF ~info.ok THEN Finish(1, info.err)
           ELSE IF info.version # new_version THEN Finish(1, "VersionMismatch")
           ELSE Goto("continue_probe")
    /\ UNCHANGED <<repo, work, remote, locals, hist, trace>>

\* continue_release committing once more before it publishes
ContProbeTag_recommit ==
    /\ pc = "continue_probe"
    /\ tag_exists' = (new_version \in tags)
    /\ Ran("git rev-parse tag", IF new_version \in tags THEN "found" ELSE "missing")
    /\ Goto("git_add")
    /\ UNCHANGED <<repo, work, remote, args, new_version, hist>>

\* continue_release lines 178-187: probe the tag, check=False
ContProbeTag ==
    /\ pc = "continue_probe"
    /\ tag_exists' = (new_version \in tags)
    /\ Ran("git rev-parse tag", IF new_version \in tags THEN "found" ELSE "missing")
    /\ Goto("publish_crate")
    /\ UNCHANGED <<repo, work, remote, args, new_version, hist>>

\* ---------------------------------------------------------- specification

Next ==
    \/ \E bump \in BumpKinds \cup {"none"}, dry_run \in BOOLEAN, cont \in BOOLEAN,
          in_project \in BOOLEAN : Start(bump, dry_run, cont, in_project)
    \/ ensure_main_branch
    \/ Dispatch
    \/ ensure_clean_worktree
    \/ ReadAndBump
    \/ CheckTag
    \/ update_cargo_files
    \/ generate_for_pending
    \/ StatusAfterUpdate
    \/ Editor
    \/ Confirm
    \/ GitAdd
    \/ GitCommit
    \/ publish_crate
    \/ tag_release
    \/ GitPush
    \/ GitPushTags
    \/ ContLastCommit
    \/ ContReadVersion
    \/ ContProbeTag

Spec == Init /\ [][Next]_vars

\* ------------------------------------------------------ reading the trace

\* the running (or last finished) invocation is a fresh release / a continuation
Fresh == runs > 0 /\ ~args.continue_release
Cont  == runs > 0 /\ args.continue_release

\* the invocation ran command c with outcome o
Did(c, o) == \E i \in 1..Len(trace) : trace[i] = Cmd(c, o)

\* the invocation ran command c
Tried(c) == \E i \in 1..Len(trace) : trace[i].cmd = c

\* the release steps of the trace, in the order they ran
ReleaseCmds == {"git commit", "cargo publish", "git tag", "git push", "git push --tags"}
Steps == SelectSeq(trace, LAMBDA e : e.cmd \in ReleaseCmds)

\* s runs the commands of `order` from its start, each after the success of
\* the one before
InOrder(s, order) ==
    /\ Len(s) <= Len(order)
    /\ \A i \in 1..Len(s) : s[i].cmd = order[i] /\ (i < Len(s) => s[i].out = "ok")

\* nothing the tool can change has changed since the invocation began
Untouched == <<repo, work, remote>> = <<atStart[1], atStart[2], atStart[3]>>

\* the state the invocation began in
StartTags     == atStart[1][5]
StartCommits  == atStart[1][3]
StartManifest == atStart[2][1]
StartDirty    == \/ atStart[2][1] # atStart[1][4]
                 \/ atStart[2][2] \/ atStart[2][3] \/ atStart[2][4]

\* ----------------------------------------------------------------- claims

\* C1: in a confirmed fresh release the release steps run in the order
\* commit, publish, tag, push, push --tags, each only after the success of
\* the one before; when publish fails the invocation is over with the release
\* commit in place, and no tag was created and nothing was pushed.
C1_FreshOrder ==
    Fresh =>
      /\ InOrder(Steps, <<"git commit", "cargo publish", "git tag", "git push",
                          "git push --tags">>)
      /\ (Tried("git commit") => Did("input", "y"))
      /\ (registry # atStart[3][3] => Did("git commit", "ok"))
      /\ (tags # StartTags => Did("cargo publish", "ok"))
      /\ (<<remoteCommits, remoteTags>> # <<atStart[3][1], atStart[3][2]>>
            => Did("git tag", "ok"))
      /\ (Tried("cargo publish") /\ ~Did("cargo publish", "ok") =>
            /\ pc = "done" /\ exitCode = 1 /\ err = "PublishFailed"
            /\ headMsg = Rel(new_version) /\ ncommits = StartCommits + 1
            /\ tags = StartTags /\ remote = atStart[3])

\* C1 witness: a fresh release committed and then failed to publish
C1_Witness ==
    Fresh /\ pc = "done" /\ Did("git commit", "ok") /\ Did("cargo publish", "fail")

\* a continuation invoked as `--continue` from inside the project
ContInvoked == Cont /\ args.bump = "none" /\ err # "ProjectRootNotFound"

\* no command of the invocation failed on the way (network, environment)
NoTransientFailure == \A i \in 1..Len(trace) : trace[i].out # "fail"

\* the release of new_version is complete
Released ==
    /\ new_version \in registry
    /\ new_version \in tags
    /\ remoteCommits = ncommits
    /\ new_version \in remoteTags

\* the continuation began in a state a fresh release left behind after its
\* commit: committed only (nothing published), published but not tagged,
\* tagged but not pushed, branch pushed but tags not
Interrupted ==
    \/ atStart[4] = "Committed" /\ PackageVersion(StartManifest) \notin atStart[3][3]
    \/ atStart[4] \in {"Published", "Tagged", "BranchPushed"}

\* C2: from every interrupted state a fresh release leaves behind after its
\* commit, a continuation whose commands do not fail on the way ends with the
\* release complete: version published, tag created, branch and tags pushed.
C2_ContinuationCompletes ==
    (ContInvoked /\ Interrupted /\ pc = "done" /\ NoTransientFailure)
        => (exitCode = 0 /\ Released)

\* C3: a publish rejected during continuation because the registry already
\* holds the version does not end the continuation: it goes on to the tag
\* (when missing) or to the push.
C3_AlreadyPublishedContinues ==
    (Cont /\ Len(trace) > 0 /\ trace[Len(trace)] = Cmd("cargo publish", "dup"))
        => pc = AfterPublish

\* the continuation passed its two validations and probed the tag
ContValidated == Cont /\ Tried("git rev-parse tag")

\* C4: a continuation on a release commit of the manifest's version publishes
\* first; when the tag was missing it then creates the tag and then pushes,
\* when the tag existed it creates no tag and pushes after the publish.
C4_ContinuationOrder ==
    /\ ContValidated =>
         /\ headMsg = Rel(new_version)
         /\ read_package_info(manifest).version = new_version
         /\ tag_exists = (new_version \in StartTags)
         /\ InOrder(Steps, IF new_version \in StartTags
                           THEN <<"cargo publish", "git push", "git push --tags">>
                           ELSE <<"cargo publish", "git tag", "git push",
                                  "git push --tags">>)
         /\ (new_version \in StartTags => tags = StartTags)
         /\ (pc = "done" => Tried("cargo publish"))
         /\ (pc = "done" /\ exitCode = 0 =>
               /\ Did("cargo publish", "ok") /\ Did("git push", "ok")
               /\ Did("git push --tags", "ok")
               /\ (new_version \notin StartTags => Did("git tag", "ok")))
    /\ (Cont /\ Did("git log", "ok") /\ pc = "done" /\ ReleaseMatch(headMsg)
          /\ read_package_info(manifest).ok
          /\ read_package_info(manifest).version = headMsg.ver)
         => Tried("cargo publish")

\* C4 witness: a continuation that found the tag, published and pushed
C4_Witness ==
    ContValidated /\ tag_exists /\ pc = "done" /\ exitCode = 0

\* C5: a continuation whose last commit is not `release v<n>.<n>.<n>` changes
\* nothing and, once it has read the commit, ends with NotAReleaseCommit.
C5_NotAReleaseCommit ==
    (Cont /\ ~ReleaseMatch(headMsg)) =>
      /\ Untouched
      /\ Steps = <<>>
      /\ ~Tried("git rev-parse tag")
      /\ (Did("git log", "ok") =>
            pc = "done" /\ exitCode = 1 /\ err = "NotAReleaseCommit")

\* C5 witness: a continuation refused for a commit `release v1.x.3`
C5_Witness ==
    Cont /\ pc = "done" /\ err = "NotAReleaseCommit" /\ headMsg = Rel(VBad)

\* C6: a continuation whose manifest version differs from the version of the
\* release commit ends with VersionMismatch, before publish, tag and push.
C6_VersionMismatch ==
    (Cont /\ ReleaseMatch(headMsg) /\ read_package_info(manifest).ok
          /\ read_package_info(manifest).version # headMsg.ver) =>
      /\ Untouched
      /\ Steps = <<>>
      /\ ~Tried("git rev-parse tag")
      /\ (Did("git log", "ok") /\ pc = "done" =>
            exitCode = 1 /\ err = "VersionMismatch")

\* C6 witness: a continuation refused with VersionMismatch
C6_Witness ==
    Cont /\ pc = "done" /\ err = "VersionMismatch" /\ Did("git log", "ok")

\* the version a fresh release started now would release
Target == bump_version(read_package_info(StartManifest).version, args.bump)

\* the fresh release reached the tag guard
AtGuard == Fresh /\ new_version # EmptyStr

\* C7: a fresh release, of any bump kind and dry-run or not, whose target tag
\* exists ends with TagAlreadyExists at the guard, with no file modified and no
\* commit, publish, tag or push.
C7_TagAlreadyExists ==
    (AtGuard /\ Target.v \in StartTags) =>
      /\ new_version = Target.v
      /\ Untouched
      /\ Steps = <<>>
      /\ ~Tried("write Cargo.toml") /\ ~Tried("changelog")
      /\ pc \in {"check_tag", "done"}
      /\ (pc = "done" => exitCode = 1 /\ err = "TagAlreadyExists")

\* C7 witness: a dry run of a bump refused with TagAlreadyExists
C7_Witness ==
    /\ Fresh /\ pc = "done" /\ err = "TagAlreadyExists"
    /\ args.dry_run /\ args.bump = "patch"

\* C8: a fresh release started on a dirty working tree modifies nothing and
\* never gets past the clean-worktree check, where it ends with DirtyWorktree.
C8_DirtyWorktree ==
    (Fresh /\ StartDirty) =>
      /\ Untouched
      /\ Steps = <<>>
      /\ ~Tried("write Cargo.toml") /\ ~Tried("changelog")
      /\ pc \in {"ensure_main_branch", "dispatch", "ensure_clean_worktree", "done"}
      /\ (pc = "done" => exitCode # 0)
      /\ (Did("git status", "ok") =>
            pc = "done" /\ exitCode = 1 /\ err = "DirtyWorktree")

\* C8 witness: a fresh release refused with DirtyWorktree
C8_Witness ==
    Fresh /\ pc = "done" /\ err = "DirtyWorktree" /\ Did("git status", "ok")

\* C9 as stated: a continuation is rejected neither by the branch check nor
\* by the clean-worktree check.
C9_BothChecksSkipped ==
    Cont => err \notin {"WrongBranch", "DirtyWorktree"}

\* C9 amended: the clean-worktree check is skipped on the continuation path,
\* the branch check is not: a continuation never runs git status and never
\* ends with DirtyWorktree, and one started on a branch other than main ends
\* at the branch check with WrongBranch, having changed nothing.
C9_OnlyCleanCheckSkipped ==
    Cont =>
      /\ ~Tried("git status")
      /\ err # "DirtyWorktree"
      /\ pc # "ensure_clean_worktree"
      /\ (branch # "main" =>
            /\ Untouched
            /\ pc \in {"ensure_main_branch", "done"}
            /\ (pc = "done" => exitCode = 1)
            /\ (Did("git rev-parse --abbrev-ref HEAD", "ok") =>
                  pc = "done" /\ err = "WrongBranch"))

\* C9 witness: a continuation started on a dirty tree that ran to the end
C9_Witness ==
    Cont /\ StartDirty /\ pc = "done" /\ exitCode = 0 /\ Did("git push --tags", "ok")

\* C10: no dry-run invocation opens the editor, asks for confirmation,
\* commits, publishes, tags or pushes.
C10_DryRunStops ==
    (runs > 0 /\ args.dry_run) =>
      /\ Steps = <<>>
      /\ ~Tried("editor") /\ ~Tried("input") /\ ~Tried("git add")

\* C11: at the checkpoint every answer but y (after strip and lower) ends the
\* release: nothing is committed, published, tagged or pushed, and the edits
\* staged before the checkpoint stay in the working tree as they were written.
C11_RejectAborts ==
    (Fresh /\ Tried("input") /\ ~Did("input", "y")) =>
      /\ pc = "done" /\ exitCode = 1 /\ err = "Aborted"
      /\ Steps = <<>> /\ ~Tried("git add")
      /\ repo = atStart[1] /\ remote = atStart[3]
      /\ Dirty
      /\ manifest = SubVersion(StartManifest, new_version).text
      /\ (manifest # StartManifest => lockDirty)

\* C11 witness: the answer "yes" aborted a release whose manifest was rewritten
C11_Witness ==
    Fresh /\ pc = "done" /\ Did("input", "yes") /\ manifest # StartManifest

\* C12: in a fresh confirmed release from manifest version V with bump kind
\* K the commit subject is exactly "release v" + bump(V, K), the tag created
\* is v + bump(V, K), and the committed manifest is the one of the start with
\* bump(V, K) written into its version field.
C12_SameVersion ==
    (Fresh /\ Did("git commit", "ok")) =>
      /\ Target.ok
      /\ headMsg = Rel(Target.v)
      /\ headManifest = SubVersion(StartManifest, Target.v).text
      /\ (Did("git tag", "ok") => tags = StartTags \cup {Target.v})

\* C12 witness: a finished minor release of 0.1.9: commit release v0.2.0, tag v0.2.0
C12_Witness ==
    /\ Fresh /\ pc = "done" /\ exitCode = 0 /\ args.bump = "minor"
    /\ read_package_info(StartManifest).version = V019
    /\ headMsg = Rel(V020) /\ V020 \in tags

\* ------------------------------------------- bump_version on many inputs

\* the parts the version texts are made of: "", "0", "1", "9", "10", "99",
\* "01", a letter, a superscript digit
BumpParts == {<<>>, <<0>>, <<1>>, <<9>>, <<1, 0>>, <<9, 9>>, <<0, 1>>,
              <<NonDigit>>, <<SuperDigit>>}

\* the version texts: one to MaxParts parts
BumpInputs == UNION {[1..n -> BumpParts] : n \in 1..MaxParts}

\* main has reached line 240 of a fresh release on a clean main branch whose
\* manifest declares any of the version texts
InitBump ==
    /\ branch = "main"
    /\ headMsg = OtherMsg
    /\ ncommits = 1
    /\ manifest \in {Plain(v) : v \in BumpInputs}
    /\ headManifest = manifest
    /\ tags = {}
    /\ lockDirty = FALSE
    /\ changelogDirty = FALSE
    /\ otherDirty = FALSE
    /\ eol = "LF"
    /\ linesep = "LF"
    /\ remoteCommits = 0
    /\ remoteTags = {}
    /\ registry = {}
    /\ pc = "read_version"
    /\ args \in {[bump |-> b, dry_run |-> FALSE, continue_release |-> FALSE] :
                   b \in BumpKinds}
    /\ new_version = EmptyStr
    /\ tag_exists = FALSE
    /\ trace = <<Cmd("git rev-parse --abbrev-ref HEAD", "ok"), Cmd("git status", "ok")>>
    /\ exitCode = 0
    /\ err = "none"
    /\ runs = 1
    /\ atStart = <<repo, work, remote, "Clean">>
    /\ releaseState = "Clean"

NextBump == ReadAndBump

SpecBump == InitBump /\ [][NextBump]_vars

\* lines 240-241 have run
Bumped == pc # "read_version"

\* the text read_package_info hands to bump_version
Current == read_package_info(manifest).version

\* three dot-separated non-negative integers
ThreeIntegers(v) == Len(v) = 3 /\ \A i \in 1..3 : IsDecimal(v[i])

\* the numbers of a version text
Triple(v) == <<ToInt(v[1]), ToInt(v[2]), ToInt(v[3])>>

\* a number written without leading zeros
Canonical(p) == IsDecimal(p) /\ (Len(p) > 1 => p[1] # 0)

\* C13: for every valid version (a,b,c), bump returns (a,b,c+1) for patch,
\* (a,b+1,0) for minor, (a+1,0,0) for major, and the input itself for current.
C13_BumpValues ==
    (Bumped /\ read_package_info(manifest).ok /\ ThreeIntegers(Current)) =>
      /\ pc = "check_tag" /\ err = "none"
      /\ LET t == Triple(Current)
             r == Triple(new_version)
         IN  /\ args.bump = "patch" => r = <<t[1], t[2], t[3] + 1>>
             /\ args.bump = "minor" => r = <<t[1], t[2] + 1, 0>>
             /\ args.bump = "major" => r = <<t[1] + 1, 0, 0>>
             /\ args.bump = "current" => new_version = Current
             /\ args.bump # "current" =>
                  Len(new_version) = 3 /\ \A i \in 1..3 : Canonical(new_version[i])

\* C13 witness: a minor bump of 0.9.99 gave 0.10.0
C13_Witness ==
    /\ Bumped /\ args.bump = "minor" /\ read_package_info(manifest).ok
    /\ Current = <<<<0>>, <<9>>, <<9, 9>>>>
    /\ new_version = <<<<0>>, <<1, 0>>, <<0>>>>

\* C14: bump on a text that is not three dot-separated non-negative integers
\* fails with InvalidFormat and returns no version, whatever the bump kind.
C14_InvalidFormat ==
    (Bumped /\ read_package_info(manifest).ok /\ ~ThreeIntegers(Current)) =>
      /\ pc = "done" /\ exitCode = 1 /\ err = "InvalidFormat"
      /\ new_version = EmptyStr

\* ------------------------------------- update_cargo_files on many manifests

\* the version lines a manifest may hold: indented or not, with or without
\* text after the closing quote
LayoutLines == {VersionLine(i, t, v, FALSE) :
                  i \in BOOLEAN, t \in BOOLEAN, v \in {V019, V020}}

\* a manifest of n version lines, the k-th being the [package] version
Layout(ls, k) ==
    <<OtherLine, NameLine("crate")>>
      \o [j \in 1..Len(ls) |-> [ls[j] EXCEPT !.pkg = (j = k)]]

WriteManifests ==
    {<<OtherLine, NameLine("crate")>>}
      \cup UNION {{Layout(ls, k) : ls \in [1..n -> LayoutLines], k \in 1..n} :
                    n \in 1..MaxVersionLines}

WriteVersions == {V019, V020, V0110}

\* main has reached line 254 with any manifest, any new version, the file in
\* either line-terminator convention, on a host of either convention
InitWrite ==
    /\ branch = "main"
    /\ headMsg = OtherMsg
    /\ ncommits = 1
    /\ manifest \in WriteManifests
    /\ headManifest = manifest
    /\ tags = {}
    /\ lockDirty = FALSE
    /\ changelogDirty = FALSE
    /\ otherDirty = FALSE
    /\ eol \in {"LF", "CRLF"}
    /\ linesep \in {"LF", "CRLF"}
    /\ remoteCommits = 0
    /\ remoteTags = {}
    /\ registry = {}
    /\ pc = "update_cargo_files"
    /\ args = [bump |-> "patch", dry_run |-> FALSE, continue_release |-> FALSE]
    /\ new_version \in WriteVersions
    /\ tag_exists = FALSE
    /\ trace = <<Cmd("git rev-parse --abbrev-ref HEAD", "ok"), Cmd("git status", "ok"),
                 Cmd("git rev-parse tag", "missing")>>
    /\ exitCode = 0
    /\ err = "none"
    /\ runs = 1
    /\ atStart = <<repo, work, remote, "Clean">>
    /\ releaseState = "Clean"

NextWrite == update_cargo_files

SpecWrite == InitWrite /\ [][NextWrite]_vars

\* update_cargo_files has run and did not end with WriteFailed
Written == pc # "update_cargo_files" /\ err # "WriteFailed"

\* the line terminator of Cargo.toml when the invocation began
StartEol == atStart[2][5]

\* the lines of the manifest the writer's pattern matches
WriterLines(m) == {i \in 1..Len(m) : WriteVersionMatch(m[i])}

\* C15: writing a version into a manifest with a version field changes the
\* value of the first matching field and nothing else: every other line,
\* later version fields included, keeps its bytes.
C15_OneOccurrence ==
    (Written /\ WriterLines(StartManifest) # {}) =>
      /\ \E i \in WriterLines(StartManifest) :
           /\ \A j \in WriterLines(StartManifest) : i <= j
           /\ manifest = [StartManifest EXCEPT ![i].val = new_version]
      /\ eol = StartEol

\* C16: when the new version equals the version read_package_info returns,
\* update_cargo_files writes nothing and runs no cargo check.
C16_NoWriteWhenSame ==
    (pc # "update_cargo_files" /\ read_package_info(StartManifest).ok
        /\ new_version = read_package_info(StartManifest).version) =>
      /\ <<manifest, eol>> = <<StartManifest, StartEol>>
      /\ ~Tried("write Cargo.toml") /\ ~Tried("cargo check")
      /\ ~lockDirty

\* C19: when read_package_info succeeds on a manifest and update_cargo_files
\* then writes v into it, read_package_info returns v on the result.
C19_ReadAfterWrite ==
    (Written /\ read_package_info(StartManifest).ok) =>
      /\ read_package_info(manifest).ok
      /\ read_package_info(manifest).version = new_version

\* ------------------------------------------------------------ exit status

\* the invocation has ended
Ended == runs > 0 /\ pc = "done"

\* the arguments parser.error rejects at lines 229-236
ArgsRejected ==
    \/ args.continue_release /\ args.bump # "none"
    \/ ~args.continue_release /\ args.bump = "none"

\* C17 as stated: an invocation ends with status 0 when it succeeded and with
\* status 1 when a validation or a step failed, rejected arguments included.
C17_ZeroOrOne ==
    Ended => exitCode = (IF err = "none" THEN 0 ELSE 1)

\* C17: an invocation ends with status 0 when it succeeded, with status 2
\* when parser.error rejected its arguments and with status 1 on every other
\* failure; a failed external command always gives status 1.
C17_ExitCodes ==
    Ended =>
      /\ exitCode = (IF err = "none" THEN 0 ELSE IF err = "UsageError" THEN 2 ELSE 1)
      /\ err = "UsageError" => ArgsRejected
      /\ ~NoTransientFailure => exitCode = 1

C17_Witness == Ended /\ ArgsRejected /\ exitCode = 2 /\ branch = "main"

\* ------------------------------------------------- tags the tool creates

\* the tags the invocation has created
NewTags == tags \ StartTags

\* C18: whenever an invocation, fresh or continuation, has created tag v<X>,
\* HEAD is the commit `release v<X>` and a publish succeeded earlier in that
\* invocation; so no tag the tool created names a version the registry does
\* not hold.
C18_TagOnlyForPublished ==
    \A X \in NewTags :
      /\ headMsg = Rel(X)
      /\ Did("cargo publish", "ok")
      /\ X \in registry

\* ------------------------------------------- continuation after the release

\* when the invocation began the release of X was complete: HEAD was
\* `release v<X>`, the registry held X, tag v<X> existed, branch and tags
\* were pushed
DoneAtStart(X) ==
    /\ atStart[1][2] = Rel(X)
    /\ X \in atStart[3][3]
    /\ X \in atStart[1][5]
    /\ atStart[3][1] = atStart[1][3]
    /\ X \in atStart[3][2]

\* C20: a continuation started when the release of X is complete creates no
\* commit, no tag and no registry entry: repository, working tree, remote and
\* registry stay as they were, at every step and at its end.
C20_Idempotent ==
    \A X \in atStart[1][5] : (Cont /\ DoneAtStart(X)) => Untouched

C20_Witness ==
    /\ Cont /\ DoneAtStart(new_version)
    /\ Did("cargo publish", "dup")
    /\ pc = "done"

====
